---- MODULE Spec2Model ----
(***************************************************************************)
(* Model of src/main.py: extraction of conference-programme records from a *)
(* PDF (extract_information_from_pdf), their coalescing                    *)
(* (merge_information_blocks) and the spreadsheet writer                   *)
(* (save_to_excel_file), run in the order of the __main__ block.           *)
(*                                                                         *)
(* Representation.  A Python str is a sequence of one-character strings    *)
(* ("" is <<>>), so that startswith and slicing can be computed.  Font     *)
(* sizes are integers in units of 2^-20 pt (all four size constants of the *)
(* source are exact in that unit).  Article dicts are mutable objects with *)
(* identity: heap[id] is the dict, and previous_article, current_block,    *)
(* the generator's yields and merged_blocks hold ids, so two names for     *)
(* one dict see each other's updates as they do in Python.                 *)
(***************************************************************************)
EXTENDS Integers, Sequences, FiniteSets, TLC

VARIABLES
    pdf,               \* the document: sequence of pages, a page is its sequence of blocks
    start_page,        \* 1-based start page
    page_number,       \* extractor: index of the page being scanned (0-based, as in the source)
    block_index,       \* extractor: 1-based position of the next block of that page
    heap,              \* article dicts by identity (id = position)
    previous_article,  \* extractor: id of previous_article, None before the first block
    current_article,   \* extractor: id of current_article, None before the first block
    gen,               \* extractor: "yield" while suspended at the yield of line 80
    yielded,           \* items the merger's `for block in blocks` has still to take
    current_block,     \* merger: id of current_block, or None
    merged_blocks,     \* merger: list of ids
    file,              \* the spreadsheet on disk
    file_at_call,      \* the spreadsheet on disk when the running save_to_excel_file was entered
    sheet,             \* the workbook's active sheet in memory
    existing_authors,  \* writer: set of tuples
    block_i,           \* writer: 1-based position of the next block of its loop
    ret,               \* where the running save_to_excel_file returns to
    pc                 \* control position

vars == <<pdf, start_page, page_number, block_index, heap, previous_article,
          current_article, gen, yielded, current_block, merged_blocks, file,
          file_at_call, sheet, existing_authors,
          block_i, ret, pc>>

None == 0

-----------------------------------------------------------------------------
(* Constants of the source.  Sizes in units of 2^-20 pt.                   *)

FONT_SIZE_PARAGRAPH == 9961472      \* 9.5
FONT_SIZE_TITLE == 9437184          \* 9
FONT_SIZE_AUTHORS == 9437184        \* 9
FONT_SIZE_AFFILIATIONS == 8388608   \* 8
FONT_SIZE_ABSTRACT == 9577696       \* 9.134002685546875

FONT_PARAGRAPH == "TimesNewRomanPS-BoldItal"
FONT_TITLE == "TimesNewRomanPS-BoldMT"
FONT_AUTHORS == "TimesNewRomanPS-ItalicMT"
FONT_AFFILIATIONS == "TimesNewRomanPS-ItalicMT"

HEADER_BACKGROUND_COLOR == "749BFF"

HEADERS ==
    << <<"N", "a", "m", "e", " ", "(", "i", "n", "c", "l", ",", " ", "t", "i", "t", "l",
         "e", "s", " ", "i", "f", " ", "a", "n", "y", " ", "m", "e", "n", "t", "i", "o",
         "n", "e", "d">>,
       <<"A", "f", "f", "i", "l", "i", "a", "t", "i", "o", "n", "s">>,
       <<"S", "e", "s", "s", "i", "o", "n", " ", "n", "a", "m", "e">>,
       <<"P", "e", "r", "s", "o", "n", "s", " ", "L", "o", "c", "a", "t", "i", "o", "n">>,
       <<"T", "o", "p", "i", "c", " ", "T", "i", "t", "l", "e">>,
       <<"P", "r", "e", "s", "e", "n", "t", "a", "t", "i", "o", "n", " ", "A", "b", "s",
         "t", "r", "a", "c", "t">> >>

-----------------------------------------------------------------------------
(* extract_information_from_pdf: span classification                       *)

EmptyArticle ==
    [authors |-> <<>>, affiliations |-> <<>>, session |-> <<>>, title |-> <<>>,
     abstract |-> <<>>]

\* A plausible slip: the authors rule forgets the size test.
Role_AuthorsAnySize(span) ==
    IF span.font = FONT_PARAGRAPH /\ span.size = FONT_SIZE_PARAGRAPH THEN "session"
    ELSE IF span.font = FONT_TITLE /\ span.size = FONT_SIZE_TITLE THEN "title"
    ELSE IF span.font = FONT_AUTHORS THEN "authors"
    ELSE IF span.font = FONT_AFFILIATIONS /\ span.size = FONT_SIZE_AFFILIATIONS
         THEN "affiliations"
    ELSE IF span.size = FONT_SIZE_ABSTRACT THEN "abstract"
    ELSE "none"

\* The if/elif chain over is_paragraph, is_title, is_authors, is_affiliations,
\* is_abstract; "none" when no branch is taken.
Role(span) ==
    IF span.font = FONT_PARAGRAPH /\ span.size = FONT_SIZE_PARAGRAPH THEN "session"
    ELSE IF span.font = FONT_TITLE /\ span.size = FONT_SIZE_TITLE THEN "title"
    ELSE IF span.font = FONT_AUTHORS /\ span.size = FONT_SIZE_AUTHORS THEN "authors"
    ELSE IF span.font = FONT_AFFILIATIONS /\ span.size = FONT_SIZE_AFFILIATIONS
         THEN "affiliations"
    ELSE IF span.size = FONT_SIZE_ABSTRACT THEN "abstract"
    ELSE "none"

AddSpan(article, span) ==
    CASE Role(span) = "session" -> [article EXCEPT !.session = @ \o span.text]
      [] Role(span) = "title" -> [article EXCEPT !.title = @ \o span.text]
      [] Role(span) = "authors" -> [article EXCEPT !.authors = Append(@, span.text)]
      [] Role(span) = "affiliations" ->
            [article EXCEPT !.affiliations = Append(@, span.text)]
      [] Role(span) = "abstract" -> [article EXCEPT !.abstract = @ \o span.text]
      [] OTHER -> article

RECURSIVE AddSpans(_, _)
AddSpans(article, spans) ==
    IF spans = <<>> THEN article
    ELSE AddSpans(AddSpan(article, Head(spans)), Tail(spans))

RECURSIVE AddLines(_, _)
AddLines(article, lines) ==
    IF lines = <<>> THEN article
    ELSE AddLines(AddSpans(article, Head(lines)), Tail(lines))

\* The record built from one layout block.
ArticleOf(block) == AddLines(EmptyArticle, block.lines)

\* The test of lines 72-73.
HasContent(a) ==
    \/ a.session # <<>>
    \/ a.title # <<>>
    \/ a.authors # <<>>
    \/ a.affiliations # <<>>
    \/ a.abstract # <<>>

\* A plausible slip: the continuation overwrites instead of appending.
ExtractorMerge_Replace(previous, current) ==
    [previous EXCEPT !.title = current.title,
                     !.affiliations = current.affiliations,
                     !.abstract = current.abstract]

\* Lines 76-78: the continuation's content goes into previous_article.
ExtractorMerge(previous, current) ==
    [previous EXCEPT !.title = @ \o current.title,
                     !.affiliations = @ \o current.affiliations,
                     !.abstract = @ \o current.abstract]

HasBlock == /\ page_number + 1 <= Len(pdf)
            /\ block_index <= Len(pdf[page_number + 1])

\* `for article in text_blocks` takes the next block, run when the merger asks
\* the generator for its next item: lines 39-79, then either the yield of line
\* 80, where the generator is suspended, or line 82 when nothing is yielded.
ExtractBlock ==
    /\ pc = "iterate"
    /\ yielded = <<>>
    /\ gen = "running"
    /\ HasBlock
    /\ "lines" \in DOMAIN pdf[page_number + 1][block_index]
    /\ LET article == pdf[page_number + 1][block_index]
           current == ArticleOf(article)
           id == Len(heap) + 1
           yields == article.type = 0 /\ HasContent(current)
           continuation == yields /\ current.session = <<>> /\ previous_article # None
       IN  /\ heap' = IF continuation
                      THEN [Append(heap, current) EXCEPT ![previous_article] =
                                ExtractorMerge(heap[previous_article], current)]
                      ELSE Append(heap, current)
           /\ current_article' = IF continuation THEN previous_article ELSE id
           /\ yielded' = IF yields THEN <<current_article'>> ELSE <<>>
           /\ gen' = IF yields THEN "yield" ELSE "running"
           /\ previous_article' = IF yields THEN previous_article ELSE id
    /\ block_index' = block_index + 1
    /\ UNCHANGED <<pdf, start_page, page_number, current_block, merged_blocks, file,
                   file_at_call, sheet, existing_authors, block_i, ret, pc>>

\* The merger asks for the next item while the generator is suspended at the
\* yield: it resumes and runs line 82.
ExtractResume ==
    /\ pc = "iterate"
    /\ yielded = <<>>
    /\ gen = "yield"
    /\ previous_article' = current_article
    /\ gen' = "running"
    /\ UNCHANGED <<pdf, start_page, page_number, block_index, heap, current_article,
                   yielded, current_block, merged_blocks, file, file_at_call, sheet,
                   existing_authors, block_i, ret, pc>>

\* A block dict without a "lines" key (an image block of the PDF library): line 48
\* raises KeyError, which nothing catches; the process ends.
ExtractRaise ==
    /\ pc = "iterate"
    /\ yielded = <<>>
    /\ gen = "running"
    /\ HasBlock
    /\ "lines" \notin DOMAIN pdf[page_number + 1][block_index]
    /\ pc' = "raised"
    /\ UNCHANGED <<pdf, start_page, page_number, block_index, heap, previous_article,
                   current_article, gen,
                   yielded, current_block, merged_blocks, file, file_at_call, sheet,
                   existing_authors, block_i, ret>>

\* The page's blocks are exhausted: `for page_number in range(...)` moves on.
NextPage ==
    /\ pc = "iterate"
    /\ yielded = <<>>
    /\ gen = "running"
    /\ page_number + 1 <= Len(pdf)
    /\ block_index > Len(pdf[page_number + 1])
    /\ page_number' = page_number + 1
    /\ block_index' = 1
    /\ UNCHANGED <<pdf, start_page, heap, previous_article,
                   current_article, gen, yielded, current_block,
                   merged_blocks, file, file_at_call, sheet, existing_authors, block_i,
                   ret, pc>>

-----------------------------------------------------------------------------
(* merge_information_blocks                                                *)

\* A plausible slip: every block closes the current one.
StartsNewBlock_Always(block) == TRUE

\* Line 101: `elif block["session"]`.
StartsNewBlock(block) == block.session # <<>>

\* Lines 105-107.
MergerMerge(current, block) ==
    [current EXCEPT !.title = @ \o block.title,
                    !.affiliations = @ \o block.affiliations,
                    !.abstract = @ \o block.abstract]

\* One iteration of `for block in blocks`.
MergeStep ==
    /\ pc = "iterate"
    /\ yielded # <<>>
    /\ LET block == Head(yielded)
       IN  IF current_block = None
           THEN /\ current_block' = block
                /\ UNCHANGED <<heap, merged_blocks>>
           ELSE IF StartsNewBlock(heap[block])
           THEN /\ merged_blocks' = Append(merged_blocks, current_block)
                /\ current_block' = block
                /\ UNCHANGED heap
           ELSE /\ heap' = [heap EXCEPT ![current_block] =
                                MergerMerge(heap[current_block], heap[block])]
                /\ UNCHANGED <<current_block, merged_blocks>>
    /\ yielded' = Tail(yielded)
    /\ UNCHANGED <<pdf, start_page, page_number, block_index, previous_article,
                   current_article, gen, file,
                   file_at_call, sheet, existing_authors, block_i, ret, pc>>

\* The iteration is exhausted: lines 109-112, and the entry point goes on to
\* its first save_to_excel_file.
MergeReturn ==
    /\ pc = "iterate"
    /\ yielded = <<>>
    /\ gen = "running"
    /\ page_number + 1 > Len(pdf)
    /\ merged_blocks' = IF current_block # None
                        THEN Append(merged_blocks, current_block)
                        ELSE merged_blocks
    /\ pc' = "save"
    /\ UNCHANGED <<pdf, start_page, page_number, block_index, heap, previous_article,
                   current_article, gen,
                   yielded, current_block, file, file_at_call, sheet, existing_authors,
                   block_i, ret>>

-----------------------------------------------------------------------------
(* The spreadsheet.  A sheet is its rows (row 1 first), each row the six   *)
(* cell values of columns A-F, and the fills of the six cells of row 1.    *)

NoFill == <<"", "", "", "", "", "">>

AbsentFile == [exists |-> FALSE, rows |-> <<>>, fill |-> NoFill]

\* create_excel_file_with_headers: the file it saves.
create_excel_file_with_headers == [exists |-> TRUE, rows |-> <<HEADERS>>, fill |-> NoFill]

\* openpyxl.load_workbook(file_path).active
load_workbook(f) == [rows |-> f.rows, fill |-> f.fill]

\* workbook.save(file_path)
save_workbook(sh) == [exists |-> TRUE, rows |-> sh.rows, fill |-> sh.fill]

max_row(sh) == Len(sh.rows)

\* The six sheet.cell(row=row, column=c).value assignments of lines 150-155.
SetRow(sh, row, values) ==
    IF row = Len(sh.rows) + 1
    THEN [sh EXCEPT !.rows = Append(@, values)]
    ELSE [sh EXCEPT !.rows[row] = values]

\* ", ".join(parts)
RECURSIVE Join(_)
Join(parts) ==
    IF parts = <<>> THEN <<>>
    ELSE IF Len(parts) = 1 THEN parts[1]
    ELSE parts[1] \o <<",", " ">> \o Join(Tail(parts))

\* Lines 142-143: `if author.startswith(","): author = author[2:]`.
StripAuthor(author) ==
    IF author # <<>> /\ author[1] = ","
    THEN SubSeq(author, 3, Len(author))
    ELSE author

\* Line 138: `session and tuple(authors) in existing_authors`.
ShortCircuit(block, existing) ==
    block.session # <<>> /\ block.authors \in existing

\* A plausible slip: the row is written one row too high.
NewRow_AtMaxRow(sh) == max_row(sh)

\* Line 149.
NewRow(sh) == max_row(sh) + 1

\* A plausible slip: the duplicate test of lines 145-146 is missing.
WriteAuthor_NoCheck(st, block, author0) ==
    LET author == StripAuthor(author0)
    IN  [existing |-> st.existing \cup {<<block.session, author>>},
         sheet |-> SetRow(st.sheet, NewRow(st.sheet),
                          <<author, Join(block.affiliations), block.session, <<>>,
                            block.title, block.abstract>>)]

\* A plausible slip: the pair is recorded with the author as read, the row with the
\* author stripped.
WriteAuthor_RawPair(st, block, author0) ==
    LET author == StripAuthor(author0)
    IN  IF <<block.session, author0>> \in st.existing THEN st
        ELSE [existing |-> st.existing \cup {<<block.session, author0>>},
              sheet |-> SetRow(st.sheet, NewRow(st.sheet),
                               <<author, Join(block.affiliations), block.session, <<>>,
                                 block.title, block.abstract>>)]

\* Lines 142-155: the body of `for author in authors`; st is the sheet and the set.
WriteAuthor(st, block, author0) ==
    LET author == StripAuthor(author0)
        author_tuple == <<block.session, author>>
    IN  IF author_tuple \in st.existing THEN st
        ELSE [existing |-> st.existing \cup {author_tuple},
              sheet |-> SetRow(st.sheet, NewRow(st.sheet),
                               <<author, Join(block.affiliations), block.session, <<>>,
                                 block.title, block.abstract>>)]

RECURSIVE WriteAuthors(_, _, _)
WriteAuthors(st, block, authors) ==
    IF authors = <<>> THEN st
    ELSE WriteAuthors(WriteAuthor(st, block, Head(authors)), block, Tail(authors))

\* Lines 123-129.
SaveOpen ==
    /\ pc = "save"
    /\ file_at_call' = file
    /\ file' = IF file.exists THEN file ELSE create_excel_file_with_headers
    /\ sheet' = load_workbook(file')
    /\ existing_authors' = {}
    /\ block_i' = 1
    /\ pc' = "save_loop"
    /\ UNCHANGED <<pdf, start_page, page_number, block_index, heap, previous_article,
                   current_article, gen,
                   yielded, current_block, merged_blocks, ret>>

\* One iteration of `for block in blocks` (lines 131-155).
SaveBlock ==
    /\ pc = "save_loop"
    /\ block_i <= Len(merged_blocks)
    /\ LET block == heap[merged_blocks[block_i]]
           st == IF ShortCircuit(block, existing_authors)
                 THEN [existing |-> existing_authors, sheet |-> sheet]
                 ELSE WriteAuthors([existing |-> existing_authors, sheet |-> sheet],
                                   block, block.authors)
       IN  /\ existing_authors' = st.existing
           /\ sheet' = st.sheet
    /\ block_i' = block_i + 1
    /\ UNCHANGED <<pdf, start_page, page_number, block_index, heap, previous_article,
                   current_article, gen,
                   yielded, current_block, merged_blocks, file, file_at_call, ret, pc>>

\* Line 157, and the return to the caller.
SaveWorkbook ==
    /\ pc = "save_loop"
    /\ block_i > Len(merged_blocks)
    /\ file' = save_workbook(sheet)
    /\ pc' = ret
    /\ UNCHANGED <<pdf, start_page, page_number, block_index, heap, previous_article,
                   current_article, gen,
                   yielded, current_block, merged_blocks, file_at_call, sheet,
                   existing_authors, block_i, ret>>

-----------------------------------------------------------------------------
(* __main__, lines 187-199: the header fill and the second save            *)

ColourHeader ==
    /\ pc = "colour"
    /\ LET f == IF file.exists THEN file ELSE create_excel_file_with_headers
           sh == [load_workbook(f) EXCEPT !.fill =
                     [col \in 1..6 |-> HEADER_BACKGROUND_COLOR]]
       IN  /\ sheet' = sh
           /\ file' = save_workbook(sh)
    /\ pc' = "save"
    /\ ret' = "done"
    /\ UNCHANGED <<pdf, start_page, page_number, block_index, heap, previous_article,
                   current_article, gen,
                   yielded, current_block, merged_blocks, file_at_call,
                   existing_authors, block_i>>

-----------------------------------------------------------------------------
(* Inputs                                                                  *)

MaxBlocks == 3    \* blocks of the document; records handed to the merger or the writer
MaxPages == 2     \* pages of the document from the start page on
MaxSpans == 2     \* spans of the block classified on its own

\* Line 181.
START_PAGE == 44

Span(font, size, text) == [font |-> font, size |-> size, text |-> text]

OTHER_FONT == "Arial"
OTHER_SIZE == 10485760   \* 10

SessionSpan(text) == Span(FONT_PARAGRAPH, FONT_SIZE_PARAGRAPH, text)
TitleSpan(text) == Span(FONT_TITLE, FONT_SIZE_TITLE, text)
AuthorSpan(text) == Span(FONT_AUTHORS, FONT_SIZE_AUTHORS, text)
AffiliationSpan(text) == Span(FONT_AFFILIATIONS, FONT_SIZE_AFFILIATIONS, text)
AbstractSpan(text) == Span(OTHER_FONT, FONT_SIZE_ABSTRACT, text)
PlainSpan(text) == Span(OTHER_FONT, FONT_SIZE_TITLE, text)

\* The talk of the end-to-end example: "Session 1", "Talk A", "Dr. X".
TalkBlock ==
    [type |-> 0,
     lines |-> << <<SessionSpan(<<"S", "e", "s", "s", "i", "o", "n", " ", "1">>)>>,
                  <<TitleSpan(<<"T", "a", "l", "k", " ", "A">>),
                    AuthorSpan(<<"D", "r", ".", " ", "X">>)>> >>]
\* A second session, two authors of whom one carries the ", " artifact.
PanelBlock ==
    [type |-> 0,
     lines |-> << <<SessionSpan(<<"R">>), AuthorSpan(<<"D", "r", ".", " ", "X">>),
                    AuthorSpan(<<",", " ", "Y">>)>> >>]
\* Continuation text: title, affiliations and abstract, no session.
ContinuationBlock ==
    [type |-> 0,
     lines |-> << <<TitleSpan(<<"u">>), AffiliationSpan(<<"f">>)>>,
                  <<AffiliationSpan(<<"g">>), AbstractSpan(<<"x">>)>> >>]
\* No session, authors only.
AuthorsBlock == [type |-> 0, lines |-> << <<AuthorSpan(<<",", " ", "Y">>)>> >>]
\* A text block none of whose spans matches a rule.
PlainBlock == [type |-> 0, lines |-> << <<PlainSpan(<<"z">>)>> >>]
\* A block of another type that has lines.
OtherTypeBlock == [type |-> 1, lines |-> << <<TitleSpan(<<"v">>)>> >>]
\* An image block as the PDF library reports it: no "lines".
ImageBlock == [type |-> 1]

Blocks ==
    {TalkBlock, PanelBlock, ContinuationBlock, AuthorsBlock, PlainBlock, OtherTypeBlock,
     ImageBlock}

RECURSIVE Sum(_)
Sum(lens) == IF lens = <<>> THEN 0 ELSE Head(lens) + Sum(Tail(lens))

\* The pages of lengths lens cut from the block sequence flat.
Paginate(flat, lens) ==
    [p \in 1..Len(lens) |->
        SubSeq(flat, Sum(SubSeq(lens, 1, p - 1)) + 1, Sum(SubSeq(lens, 1, p)))]

\* The lengths of the pages of a document of np pages and at most MaxBlocks blocks.
PageLengths(np) == {lens \in [1..np -> 0..MaxBlocks] : Sum(lens) <= MaxBlocks}

\* The state every run starts from apart from its inputs.
Start(p) ==
    /\ heap = <<>>
    /\ previous_article = None
    /\ current_article = None
    /\ gen = "running"
    /\ yielded = <<>>
    /\ current_block = None
    /\ merged_blocks = <<>>
    /\ file_at_call = AbsentFile
    /\ sheet = load_workbook(AbsentFile)
    /\ existing_authors = {}
    /\ block_i = 1
    /\ pc = p

\* A page before the start page; the extractor never loads it.
SkippedPages == {<<>>, <<TalkBlock>>}

\* The entry point, on a directory without result.xlsx.  book.pdf either has
\* START_PAGE - 1 pages before the pages the extractor reads, or is too short
\* to have a page START_PAGE.
Init ==
    /\ \E np \in 0..MaxPages :
          \E lens \in PageLengths(np) :
              \E flat \in [1..Sum(lens) -> Blocks] :
                  \/ \E skipped \in SkippedPages :
                        pdf = [p \in 1..(START_PAGE - 1) |-> skipped]
                                  \o Paginate(flat, lens)
                  \/ pdf = Paginate(flat, lens)
    /\ start_page = START_PAGE
    /\ page_number = start_page - 1
    /\ block_index = 1
    /\ file = AbsentFile
    /\ ret = "colour"
    /\ Start("iterate")

Next ==
    \/ ExtractBlock
    \/ ExtractResume
    \/ ExtractRaise
    \/ NextPage
    \/ MergeStep
    \/ MergeReturn
    \/ SaveOpen
    \/ SaveBlock
    \/ SaveWorkbook
    \/ ColourHeader

Spec == Init /\ [][Next]_vars

-----------------------------------------------------------------------------
(* Properties of the entry point (Spec)                                    *)

RECURSIVE Flatten(_)
Flatten(pages) == IF pages = <<>> THEN <<>> ELSE Head(pages) \o Flatten(Tail(pages))

\* The blocks the extractor scans, in order.
Scanned == Flatten(SubSeq(pdf, start_page, Len(pdf)))

\* The merger has returned.
Merged == pc \in {"save", "save_loop", "colour", "done"}

\* The extractor is about to process a continuation block: a text block with
\* content and no session text, while previous_article is set.
AtContinuation ==
    /\ pc = "iterate"
    /\ yielded = <<>>
    /\ gen = "running"
    /\ HasBlock
    /\ "lines" \in DOMAIN pdf[page_number + 1][block_index]
    /\ pdf[page_number + 1][block_index].type = 0
    /\ HasContent(ArticleOf(pdf[page_number + 1][block_index]))
    /\ ArticleOf(pdf[page_number + 1][block_index]).session = <<>>
    /\ previous_article # None

\* C2: at the end of the entry point's run on an absent spreadsheet the file has
\* exactly one data row per distinct (session, author) pair of the merged records
\* (one row for the single talk of the example).
C2_OneRowPerPair ==
    pc = "done" =>
        Len(file.rows) - 1 =
            Cardinality(UNION { { <<heap[merged_blocks[k]].session,
                                    StripAuthor(heap[merged_blocks[k]].authors[a])>> :
                                  a \in 1..Len(heap[merged_blocks[k]].authors) } :
                                k \in 1..Len(merged_blocks) })

\* C3: the merged list has exactly one entry for each scanned text block with
\* session text (heap[i] is the record built from the i-th scanned block), and no
\* record appears in it twice.
C3_OneRecordPerSession ==
    Merged =>
        /\ \A i \in 1..Len(Scanned) :
               (Scanned[i].type = 0 /\ ArticleOf(Scanned[i]).session # <<>>) =>
                   Cardinality({k \in 1..Len(merged_blocks) : merged_blocks[k] = i}) = 1
        /\ \A j, k \in 1..Len(merged_blocks) :
               j # k => merged_blocks[j] # merged_blocks[k]

\* C4: the extractor's step on a continuation block appends the block's title,
\* abstract and affiliations to those of previous_article, leaves its session and
\* authors as they were, and yields that same record, which stays previous_article.
C4_ContinuationMerges ==
    [][AtContinuation =>
          LET p == previous_article
              c == ArticleOf(pdf[page_number + 1][block_index])
          IN  /\ heap'[p].title = heap[p].title \o c.title
              /\ heap'[p].abstract = heap[p].abstract \o c.abstract
              /\ heap'[p].affiliations = heap[p].affiliations \o c.affiliations
              /\ heap'[p].session = heap[p].session
              /\ heap'[p].authors = heap[p].authors
              /\ yielded' = <<p>>
              /\ current_article' = p
              /\ previous_article' = p]_vars

\* A continuation with a title has just been merged into a session record that
\* already had a title.
C4_Witness ==
    /\ pc = "iterate"
    /\ Len(yielded) = 1
    /\ yielded[1] < Len(heap)
    /\ heap[yielded[1]].session # <<>>
    /\ heap[Len(heap)].title # <<>>
    /\ heap[Len(heap)].affiliations # <<>>
    /\ Len(heap[yielded[1]].title) > Len(heap[Len(heap)].title)

\* C6: every record the extractor yields has a non-empty field.
C6_YieldedHaveContent ==
    \A k \in 1..Len(yielded) : HasContent(heap[yielded[k]])

RECURSIVE ConcatField(_, _, _)
\* The texts (field title or abstract) or lists (affiliations) of the blocks
\* bs[i], i in I, one after the other in document order.
ConcatField(bs, I, field) ==
    IF bs = <<>> THEN <<>>
    ELSE ConcatField(SubSeq(bs, 1, Len(bs) - 1), I, field)
         \o (IF Len(bs) \in I THEN ArticleOf(bs[Len(bs)])[field] ELSE <<>>)

\* C10: the title, abstract and affiliations of every merged record are the
\* in-order concatenation of the contributions of the blocks that make it up (some
\* set of the scanned blocks), each block's contribution exactly once.
C10_EachContributionOnce ==
    Merged =>
        \A k \in 1..Len(merged_blocks) :
            \E I \in SUBSET (1..Len(Scanned)) :
                /\ heap[merged_blocks[k]].title = ConcatField(Scanned, I, "title")
                /\ heap[merged_blocks[k]].abstract = ConcatField(Scanned, I, "abstract")
                /\ heap[merged_blocks[k]].affiliations =
                       ConcatField(Scanned, I, "affiliations")

-----------------------------------------------------------------------------
(* merge_information_blocks on any list of records (SpecMerge)             *)

MergeRecords ==
    { [authors |-> << <<"A">> >>, affiliations |-> << <<"f">> >>, session |-> s,
       title |-> t, abstract |-> <<"x">>] :
      s \in {<<>>, <<"S">>}, t \in {<<>>, <<"t">>} }

\* The argument is a list of up to MaxBlocks dicts, in which a dict may occur
\* more than once.
InitMerge ==
    /\ pdf = <<>>
    /\ start_page = 1
    /\ page_number = 0
    /\ block_index = 1
    /\ file = AbsentFile
    /\ ret = "done"
    /\ previous_article = None
    /\ current_article = None
    /\ gen = "running"
    /\ current_block = None
    /\ merged_blocks = <<>>
    /\ file_at_call = AbsentFile
    /\ sheet = load_workbook(AbsentFile)
    /\ existing_authors = {}
    /\ block_i = 1
    /\ pc = "iterate"
    /\ \E n \in 0..MaxBlocks :
          /\ heap \in [1..n -> MergeRecords]
          /\ \E m \in 0..MaxBlocks : yielded \in [1..m -> 1..n]

NextMerge ==
    \/ MergeStep
    \/ MergeReturn

SpecMerge == InitMerge /\ [][NextMerge]_vars

\* C5: in the merger's list every record after the first has a session, so no
\* two consecutive records both lack one.
C5_NoTwoSessionless ==
    /\ \A k \in 2..Len(merged_blocks) : heap[merged_blocks[k]].session # <<>>
    /\ \A k \in 1..(Len(merged_blocks) - 1) :
          ~(/\ heap[merged_blocks[k]].session = <<>>
            /\ heap[merged_blocks[k + 1]].session = <<>>)

\* The merger has returned a list that starts with a sessionless record into
\* which a sessionless record was merged, followed by a session record.
C5_Witness ==
    /\ pc = "save"
    /\ Len(merged_blocks) >= 2
    /\ heap[merged_blocks[1]].session = <<>>
    /\ Len(heap[merged_blocks[1]].abstract) >= 2

-----------------------------------------------------------------------------
(* One call of save_to_excel_file (SpecWrite)                              *)

WriteAuthorLists ==
    { <<>>,
      << <<"A">> >>,
      << <<"S">>, <<"A">> >>,
      << <<",", " ", "A">>, <<"A">> >>,
      << <<"S">>, <<",", " ", "A">> >>,
      << <<"A">>, <<"S">>, <<"A">> >> }

WriteRecords ==
    { [authors |-> a, affiliations |-> << <<"f">>, <<"g">> >>, session |-> s,
       title |-> <<"t">>, abstract |-> <<"x">>] :
      s \in {<<>>, <<"S">>}, a \in WriteAuthorLists }

\* The file is absent, or was left by an earlier run (header only, or header and
\* a row, filled), or is some other workbook with one row.
WriteFiles ==
    { AbsentFile,
      create_excel_file_with_headers,
      [exists |-> TRUE,
       rows |-> <<HEADERS, <<<<"A">>, <<>>, <<"S">>, <<>>, <<"t">>, <<"x">>>> >>,
       fill |-> [col \in 1..6 |-> HEADER_BACKGROUND_COLOR]],
      [exists |-> TRUE,
       rows |-> << <<<<"q">>, <<>>, <<>>, <<>>, <<>>, <<>>>> >>,
       fill |-> NoFill] }

InitWrite ==
    /\ pdf = <<>>
    /\ start_page = 1
    /\ page_number = 0
    /\ block_index = 1
    /\ previous_article = None
    /\ current_article = None
    /\ gen = "running"
    /\ yielded = <<>>
    /\ current_block = None
    /\ \E n \in 0..MaxBlocks :
          /\ heap \in [1..n -> WriteRecords]
          /\ merged_blocks = [k \in 1..n |-> k]
    /\ file \in WriteFiles
    /\ file_at_call = AbsentFile
    /\ sheet = load_workbook(AbsentFile)
    /\ existing_authors = {}
    /\ block_i = 1
    /\ ret = "done"
    /\ pc = "save"

NextWrite ==
    \/ SaveOpen
    \/ SaveBlock
    \/ SaveWorkbook

SpecWrite == InitWrite /\ [][NextWrite]_vars

\* The writer's loop is running (or has just ended, before workbook.save): the
\* rows the call has appended are those of sheet beyond the rows of file.
InCall == pc = "save_loop"

\* The test of line 138 holds for the block the loop is about to process.
SkipsNext ==
    /\ InCall
    /\ block_i <= Len(merged_blocks)
    /\ ShortCircuit(heap[merged_blocks[block_i]], existing_authors)

\* C1: the rows appended by one call are pairwise distinct in
\* (column 3, column 1), i.e. in (session, author).
C1_NoDuplicateRows ==
    InCall =>
        \A i, j \in (Len(file.rows) + 1)..Len(sheet.rows) :
            i # j => <<sheet.rows[i][3], sheet.rows[i][1]>>
                         # <<sheet.rows[j][3], sheet.rows[j][1]>>

\* The loop has ended with at least two rows appended, and some block named one
\* author twice, once with the ", " artifact.
C1_Witness ==
    /\ InCall
    /\ block_i > Len(merged_blocks)
    /\ Len(sheet.rows) >= Len(file.rows) + 2
    /\ \E k \in 1..Len(merged_blocks) :
          \E a, b \in 1..Len(heap[merged_blocks[k]].authors) :
              /\ heap[merged_blocks[k]].authors[a] # heap[merged_blocks[k]].authors[b]
              /\ StripAuthor(heap[merged_blocks[k]].authors[a])
                     = StripAuthor(heap[merged_blocks[k]].authors[b])

\* C8: when the file was absent at the call, row 1 of the sheet and of the file
\* holds the six headers throughout and after the call, and every row the call
\* writes is a further row below it (one per recorded pair).
C8_HeaderKept ==
    (pc \in {"save_loop", "done"} /\ ~file_at_call.exists) =>
        /\ file.exists
        /\ file.rows[1] = HEADERS
        /\ sheet.rows[1] = HEADERS
        /\ Len(sheet.rows) = 1 + Cardinality(existing_authors)

\* A call on an absent file has returned, having written two rows or more.
C8_Witness ==
    /\ pc = "done"
    /\ ~file_at_call.exists
    /\ Len(file.rows) >= 3

\* C9 as claimed: the test of line 138 never holds.
C9_NeverMatches == ~SkipsNext

\* C9 as amended: the test of line 138 holds only for a block with a session and
\* exactly two authors (x, y) such that the call has already appended a row with
\* session x and author y.
C9_MatchesOnlyPair ==
    SkipsNext =>
        LET block == heap[merged_blocks[block_i]]
        IN  /\ block.session # <<>>
            /\ Len(block.authors) = 2
            /\ \E i \in (Len(file.rows) + 1)..Len(sheet.rows) :
                  /\ sheet.rows[i][3] = block.authors[1]
                  /\ sheet.rows[i][1] = block.authors[2]

\* The loop is about to skip a block by the test of line 138.
C9_Witness == SkipsNext

-----------------------------------------------------------------------------
(* Classification of the spans of one block (SpecClassify)                 *)

Fonts == {FONT_PARAGRAPH, FONT_TITLE, FONT_AUTHORS, OTHER_FONT}

Sizes ==
    {FONT_SIZE_PARAGRAPH, FONT_SIZE_TITLE, FONT_SIZE_AFFILIATIONS, FONT_SIZE_ABSTRACT,
     OTHER_SIZE}

Spans == { Span(f, z, t) : f \in Fonts, z \in Sizes, t \in {<<"a">>, <<"b">>} }

\* A document of one text block of one line of at most MaxSpans spans.
InitClassify ==
    /\ \E n \in 0..MaxSpans :
          \E spans \in [1..n -> Spans] : pdf = << <<[type |-> 0, lines |-> <<spans>>]>> >>
    /\ start_page = 1
    /\ page_number = 0
    /\ block_index = 1
    /\ file = AbsentFile
    /\ ret = "colour"
    /\ Start("iterate")

NextClassify == ExtractBlock

SpecClassify == InitClassify /\ [][NextClassify]_vars

\* The five rules as the claim states them.
SessionRule(sp) == sp.font = "TimesNewRomanPS-BoldItal" /\ sp.size = FONT_SIZE_PARAGRAPH
TitleRule(sp) == sp.font = "TimesNewRomanPS-BoldMT" /\ sp.size = FONT_SIZE_TITLE
AuthorsRule(sp) == sp.font = "TimesNewRomanPS-ItalicMT" /\ sp.size = FONT_SIZE_AUTHORS
AffiliationsRule(sp) ==
    sp.font = "TimesNewRomanPS-ItalicMT" /\ sp.size = FONT_SIZE_AFFILIATIONS
\* ... with a font name among the fixed ones for the abstract too,
AbstractRuleWithFont(sp) ==
    /\ sp.font \in {"TimesNewRomanPS-BoldItal", "TimesNewRomanPS-BoldMT",
                    "TimesNewRomanPS-ItalicMT"}
    /\ sp.size = FONT_SIZE_ABSTRACT
\* ... and the abstract by its size alone.
AbstractRuleSizeOnly(sp) == sp.size = FONT_SIZE_ABSTRACT

TextsOf(spans) == [i \in 1..Len(spans) |-> spans[i].text]

RECURSIVE Concat(_)
Concat(texts) == IF texts = <<>> THEN <<>> ELSE Head(texts) \o Concat(Tail(texts))

\* The record built from the block, once the extractor has processed it.
Classified == heap # <<>>
ClassifiedSpans == pdf[1][1].lines[1]

\* What C7 has in common as claimed and as amended: session, title, authors and
\* affiliations hold the texts of exactly the spans whose font name and size both
\* equal the role's constants, and a block of one span fills at most one field.
C7_FontAndSizeRoles ==
    /\ heap[1].session = Concat(TextsOf(SelectSeq(ClassifiedSpans, SessionRule)))
    /\ heap[1].title = Concat(TextsOf(SelectSeq(ClassifiedSpans, TitleRule)))
    /\ heap[1].authors = TextsOf(SelectSeq(ClassifiedSpans, AuthorsRule))
    /\ heap[1].affiliations = TextsOf(SelectSeq(ClassifiedSpans, AffiliationsRule))
    /\ (Len(ClassifiedSpans) = 1 =>
            Cardinality({f \in DOMAIN heap[1] : heap[1][f] # <<>>}) <= 1)

\* C7 as claimed: every role, the abstract too, is assigned only on a match of
\* both font name and size; any other span contributes to no field.
C7_RolesByFontAndSize ==
    Classified =>
        /\ C7_FontAndSizeRoles
        /\ heap[1].abstract =
               Concat(TextsOf(SelectSeq(ClassifiedSpans, AbstractRuleWithFont)))

NoRule(sp) ==
    ~(SessionRule(sp) \/ TitleRule(sp) \/ AuthorsRule(sp) \/ AffiliationsRule(sp)
        \/ AbstractRuleSizeOnly(sp))

\* C7 as amended: the abstract role is assigned to every span of the abstract
\* size that matches none of the four font-and-size rules, whatever its font; a
\* block whose spans match no rule yields an empty record.
C7_RolesAbstractBySize ==
    Classified =>
        /\ C7_FontAndSizeRoles
        /\ heap[1].abstract =
               Concat(TextsOf(SelectSeq(ClassifiedSpans, AbstractRuleSizeOnly)))
        /\ ((\A i \in 1..Len(ClassifiedSpans) : NoRule(ClassifiedSpans[i])) =>
                heap[1] = EmptyArticle)

\* A block of an authors span and an affiliations span (same font, sizes 9 and 8)
\* has been classified.
C7_Witness ==
    /\ Classified
    /\ Len(ClassifiedSpans) = 2
    /\ heap[1].authors # <<>>
    /\ heap[1].affiliations # <<>>

====
